---- MODULE Spec2Model ----
(***************************************************************************)
(* Replication-aware connection engine of the key/value server:            *)
(* the per-connection loop Redis::handle_conn (src/src/redis.rs), the      *)
(* command handlers (src/src/redis/processing.rs) and the serializer       *)
(* (src/src/resp/resp_serializer.rs).                                      *)
(*                                                                         *)
(* One master server "m" with client connections and replica links, and    *)
(* replica servers that run the same handle_conn loop in the REPLICA role  *)
(* on their master connection.  Every task is a tokio task; a step of the  *)
(* model is the code between two suspension points or one critical         *)
(* section.                                                                *)
(*                                                                         *)
(* Code of the repository that is not under src/ (the decoder RespParser,  *)
(* commands.rs, replica.rs, synchronize.rs, and the reply encoders that    *)
(* processing.rs imports next to create_null_string) is modelled from      *)
(* spec.md; those definitions say so.                                      *)
(***************************************************************************)
EXTENDS Integers, Sequences, FiniteSets, TLC

VARIABLES
    pc,                         \* task -> position in handle_conn
    cmd,                        \* task -> the Command being dispatched
    total_bytes_processed,      \* task -> redis.rs:60
    write_bytes_processed,      \* task -> redis.rs:61
    write_commands_to_process,  \* task -> redis.rs:62
    todo,                       \* task -> links still to visit (propagation, WAIT)
    up_to_date_replicas,        \* task -> processing.rs:166
    database,                   \* server -> keyspace
    expiry,                     \* server -> key -> deadline
    now,                        \* SystemTime::now()
    replica_connections,        \* the master's registry: set of link tasks
    regReaders,                 \* tasks holding replica_connections.read()
    hashOrder,                  \* iteration order of the registry HashMap
    down,                       \* link -> items in flight master -> replica
    up,                         \* link -> items in flight replica -> master
    closed,                     \* link -> the replica closed its end
    sent,                       \* task -> everything written on the task's own stream
    hist,                       \* task -> frames decoded by the task's loop
    decodeOrder,                \* master: write ids in the order decoded
    applyOrder,                 \* master: write ids in the order applied to the store
    linkLog,                    \* link -> propagated writes, in the order written
    ackLog,                     \* task -> REPLCONF ACK replies with the GETACK they answer
    probe,                      \* task -> record of the WAIT being served
    fed,                        \* number of frames a master wrote on a replica's link
    wrote,                      \* link -> kinds of the items the master wrote, in order
    setLog,                     \* server -> the SETs handled, with the clock each read
    streamLock,                 \* link -> task holding the stream's write guard
    regAt,                      \* master: the registry as each write was accepted
    ops,                        \* task -> lock operations left in the loop's iteration
    lockQ                       \* lock -> holders and waiters, in order of arrival

vars == <<pc, cmd, total_bytes_processed, write_bytes_processed,
          write_commands_to_process, todo, up_to_date_replicas, database, expiry,
          now, replica_connections, regReaders, hashOrder, down, up, closed, sent,
          hist, decodeOrder, applyOrder, linkLog, ackLog, probe, fed, wrote, setLog,
          streamLock, regAt, ops, lockQ>>

----------------------------------------------------------------------------
(* Bounds *)

\* frames the clients of one server send in all
MaxFrames == 2

\* frames a master writes on a replica's link
MaxFeed == 2

\* frames the client of the store sends
MaxStoreFrames == 4

\* clock ticks
MaxNow == 2

\* frames the client connections send when one link's writes are followed
\* part by part
MaxWireFrames == 3

\* frames the two connections send when each writes and then waits
MaxWaitFrames == 4

\* frames the clients send when the tasks are followed lock by lock
MaxLockFrames == 2

----------------------------------------------------------------------------
(* Tasks, servers, connections *)

MClients == {"c1", "c2"}          \* client connections accepted by the master
Links    == {"l1", "l2"}          \* connections the master accepted from replicas
MLinks   == {"m1", "m2"}          \* the replicas' master_connection tasks
RClients == {"rc"}                \* a client connection accepted by replica r1
Tasks    == MClients \cup Links \cup MLinks \cup RClients
Servers  == {"m", "r1", "r2"}

\* the master's locks: the keyspace mutex, the expiry lock, the replica
\* registry's lock, and the lock of each connection's stream, named by its task
Locks == {"db", "expiry", "registry"} \cup MClients \cup Links

ServerOf(t) ==
    CASE t \in MClients \cup Links -> "m"
      [] t \in {"m1", "rc"}        -> "r1"
      [] OTHER                     -> "r2"

\* the link whose other end is the master connection m
LinkOf(m) == IF m = "m1" THEN "l1" ELSE "l2"

\* as_raw_fd() of a link's stream: the registry key
Fd(l) == IF l = "l1" THEN 1 ELSE 2

Role(s) == IF s = "m" THEN "Master" ELSE "Replica"

None == <<>>
Some(x) == <<x>>

----------------------------------------------------------------------------
(* Wire codec *)

Digit == <<"0", "1", "2", "3", "4", "5", "6", "7", "8", "9">>

\* format!("{}", n) of an unsigned integer
RECURSIVE FormatNat(_)
FormatNat(n) ==
    IF n < 10 THEN Digit[n + 1] ELSE FormatNat(n \div 10) \o Digit[(n % 10) + 1]

Pow10(k) == IF k = 0 THEN 1 ELSE IF k = 1 THEN 10 ELSE IF k = 2 THEN 100 ELSE 1000

\* str::parse::<u64>() of a canonical decimal numeral
ParseNat(s) ==
    CHOOSE n \in (IF Len(s) = 1 THEN 0 ELSE Pow10(Len(s) - 1)) .. (Pow10(Len(s)) - 1) :
        FormatNat(n) = s

serialize_bulk_string(data) ==
    "$" \o FormatNat(Len(data)) \o "\r\n" \o data \o "\r\n"

RECURSIVE ConcatAll(_)
ConcatAll(ss) == IF ss = <<>> THEN "" ELSE Head(ss) \o ConcatAll(Tail(ss))

\* an array of bulk strings
serialize_array(data) ==
    "*" \o FormatNat(Len(data)) \o "\r\n"
        \o ConcatAll([i \in 1 .. Len(data) |-> serialize_bulk_string(data[i])])

\* raw length of a command frame: what parse_command reports as bytes
FrameLen(elems) == Len(serialize_array(elems))

----------------------------------------------------------------------------
(* Frames and commands *)

\* to_uppercase / to_lowercase on the words that occur in the frames below
ToUpper(s) ==
    CASE s = "set"    -> "SET"
      [] s = "getack" -> "GETACK"
      [] s = "px"     -> "PX"
      [] OTHER        -> s

ToLower(s) ==
    CASE s = "GETACK" -> "getack"
      [] s = "ACK"    -> "ack"
      [] OTHER        -> s

\* decode of one array of bulk strings into a Command (spec 4.1, 4.2)
ParseCommand(f) ==
    LET name == ToUpper(f[1]) IN
    CASE name = "PING"     -> [name |-> "Ping"]
      [] name = "ECHO"     -> [name |-> "Echo", message |-> f[2]]
      [] name = "SET"      -> [name |-> "Set", key |-> f[2], value |-> f[3],
                               lifespan |-> IF Len(f) >= 5 /\ ToUpper(f[4]) = "PX"
                                            THEN Some(ParseNat(f[5])) ELSE None]
      [] name = "GET"      -> [name |-> "Get", key |-> f[2]]
      [] name = "KEYS"     -> [name |-> "Keys", arg |-> f[2]]
      [] name = "INFO"     -> [name |-> "Info", arg |-> f[2]]
      [] name = "REPLCONF" -> [name |-> "ReplConf", arg1 |-> f[2], arg2 |-> Some(f[3])]
      [] name = "PSYNC"    -> [name |-> "Psync", replication_id |-> f[2], offset |-> f[3]]
      [] name = "WAIT"     -> [name |-> "Wait", replicas |-> ParseNat(f[2]),
                               timeout |-> ParseNat(f[3])]

NoCommand == [name |-> "None"]

\* Command::is_write (spec 4.2: only SET)
is_write(command) == command.name = "Set"

\* the Vec<RespType> serialize_command builds for a SET
command_array(command) ==
    <<"SET", command.key, command.value>>
        \o (IF command.lifespan # None THEN <<FormatNat(command.lifespan[1])>> ELSE <<>>)

serialize_command(command) == serialize_array(command_array(command))

\* serialize_command(&Command::ReplConf("GETACK", Some("*"))), processing.rs:161
get_ack_command == <<"REPLCONF", "GETACK", "*">>

\* the reply of handle_replconf_getack (spec 4.4.5)
ack_array(n) == <<"REPLCONF", "ACK", FormatNat(n)>>

\* the literal subtracted at redis.rs:140
GetackFrameLen == 37

\* encodings of the reply types the handlers of processing.rs use beyond bulk
\* strings and arrays (spec 4.1); the serializer revision under src/ has no arm
\* for them
serialize_other(data) ==
    CASE data.type = "Integer"      -> ":" \o FormatNat(data.val) \o "\r\n"
      [] data.type = "SimpleString" -> "+" \o data.val \o "\r\n"

serialize_resp_data(data) ==
    CASE data.type = "BulkString" -> serialize_bulk_string(data.val)
      [] data.type = "Array"      -> serialize_array(data.val)
      [] OTHER                    -> serialize_other(data)

create_null_string == "$-1\r\n"

Integer(n)      == [type |-> "Integer", val |-> n]
SimpleString(s) == [type |-> "SimpleString", val |-> s]
BulkString(s)   == [type |-> "BulkString", val |-> s]

\* frames a client of the master sends; a link's first frame is the replica's
\* PSYNC, what follows on it is what the replica wrote
SetPlain  == <<"SET", "k1", "v1">>
SetPx     == <<"SET", "k1", "v2", "PX", "1">>
WaitFrame == <<"WAIT", "1", "0">>
PsyncFrame == <<"PSYNC", "?", "-1">>
GetFrame  == <<"GET", "k1">>

\* frames of a client that works on one key of the store
StoreFrames == {SetPlain, SetPx, GetFrame}

\* frames a master may deliver on a replica's master connection
MasterFrames ==
    { <<"SET", "k1", "v1">>, <<"PING">>, <<"REPLCONF", "GETACK", "*">>,
      <<"REPLCONF", "getack", "ab">> }

\* frames a client of a replica sends
ReplicaClientFrames ==
    { <<"SET", "k1", "v2">>, <<"GET", "k1">>, <<"INFO", "replication">>,
      <<"ECHO", "hey">>, <<"PING">>, <<"PSYNC", "?", "-1">> }

ClientFrames(t) ==
    CASE t \in MClients -> {SetPlain, SetPx, WaitFrame}
      [] t \in Links    -> IF hist[t] = <<>> THEN {PsyncFrame}
                           ELSE IF up[t] # <<>> THEN {Head(up[t]).elems} ELSE {}
      [] t \in RClients -> ReplicaClientFrames
      [] OTHER          -> {}

\* items on a link that are not command frames
FullResync == [kind |-> "simple", elems |-> <<"FULLRESYNC">>]
Snapshot   == [kind |-> "rdb", elems |-> <<"REDIS">>]
ArrayItem(elems) == [kind |-> "array", elems |-> elems]
SimpleItem(text) == [kind |-> "simple", elems |-> <<text>>]
BulkItem    == [kind |-> "bulk", elems |-> <<>>]
IntegerItem == [kind |-> "integer", elems |-> <<>>]

----------------------------------------------------------------------------
(* Shared state helpers *)

\* replica::is_stream_replica: the stream is a value of the registry
is_stream_replica(t) == t \in replica_connections

\* the fan-out reaching no link
IterOrder_none(reg) == <<>>

\* connections.iter(): the HashMap's order over the registered links
IterOrder(reg) == SelectSeq(hashOrder, LAMBDA l : l \in reg)

\* connections.keys() collected and sorted, processing.rs:179-180
SortedFds(reg) ==
    IF reg = {} THEN <<>>
    ELSE CHOOSE q \in [1 .. Cardinality(reg) -> reg] :
            /\ \A i, j \in DOMAIN q : i < j => Fd(q[i]) < Fd(q[j])

\* HashMap::insert
Insert(map, k, v) == (k :> v) @@ map

\* the entry left in place
Remove_kept(map, k) == map

\* HashMap::remove
Remove(map, k) == [x \in DOMAIN map \ {k} |-> map[x]]

\* write_all on the task's own stream; a replica's master connection leads to
\* the master's end of the link
WriteOwn(t, what, bytes, item) ==
    /\ sent' = [sent EXCEPT ![t] = Append(@, [for |-> what, bytes |-> bytes])]
    /\ up' = IF t \in MLinks
             THEN [up EXCEPT ![LinkOf(t)] = Append(@, item)]
             ELSE up

\* the id of the write a task is dispatching: connection and position
WriteId(t) == <<t, Len(hist[t])>>

WaitPcs == {"wait_send", "wait_recv", "wait_reply"}

IdleProbe == [state |-> "idle", timedOut |-> FALSE, size |-> 0, asked |-> 0]

----------------------------------------------------------------------------
(* Redis::handle_conn: decode and offset accounting, redis.rs:64-99 *)

\* frames the clients have sent so far
Delivered == Len(hist["c1"]) + Len(hist["c2"]) + Len(hist["rc"])

\* the increment left out
add_bytes_dropped(counter, bytes) == counter

\* redis.rs:73 and 75: counter += bytes
add_bytes(counter, bytes) == counter + bytes

\* the test left out
may_parse_always(t) == TRUE

\* redis.rs:68: the loop reads its stream unless the stream is a replica's
may_parse(t) == ~is_stream_replica(t)

\* parse_command returned Some((command, bytes)) with frame f
Decode(t, f) ==
    LET command == ParseCommand(f)
        bytes   == FrameLen(f)
        role    == Role(ServerOf(t))
        fanout  == role = "Master" /\ is_write(command)
        order   == IterOrder(replica_connections)
    IN  /\ pc[t] = "loop"
        /\ may_parse(t)
        /\ cmd' = [cmd EXCEPT ![t] = command]
        /\ hist' = [hist EXCEPT ![t] = Append(@, f)]
        /\ total_bytes_processed' =
              IF role = "Replica"
              THEN [total_bytes_processed EXCEPT ![t] = add_bytes(@, bytes)]
              ELSE total_bytes_processed
        /\ write_bytes_processed' =
              IF fanout THEN [write_bytes_processed EXCEPT ![t] = add_bytes(@, bytes)]
              ELSE write_bytes_processed
        /\ write_commands_to_process' =
              IF fanout THEN [write_commands_to_process EXCEPT ![t] = @ + 1]
              ELSE write_commands_to_process
        /\ decodeOrder' =
              IF fanout THEN Append(decodeOrder, <<t, Len(hist[t]) + 1>>)
              ELSE decodeOrder
        /\ regAt' = IF fanout THEN Append(regAt, replica_connections) ELSE regAt
        \* redis.rs:88-91: the registry is read-locked for the whole fan-out
        /\ todo' = IF fanout THEN [todo EXCEPT ![t] = order] ELSE todo
        /\ regReaders' =
              IF fanout /\ order # <<>> THEN regReaders \cup {t} ELSE regReaders
        /\ pc' = [pc EXCEPT ![t] =
                    IF fanout /\ order # <<>> THEN "propagate" ELSE "dispatch"]

\* a frame arrives on a connection the listener accepted; a replica accepts
\* connections once perform_handshake has returned (redis.rs:201-213)
ClientDecode(t) ==
    /\ t \in Links \/ Delivered < MaxFrames
    /\ t \in RClients => pc["m1"] # "handshake"
    /\ \E f \in ClientFrames(t) : Decode(t, f)
    /\ up' = IF t \in Links /\ hist[t] # <<>> THEN [up EXCEPT ![t] = Tail(@)] ELSE up
    /\ UNCHANGED <<up_to_date_replicas, database, expiry, now, replica_connections,
                   hashOrder, down, closed, sent, applyOrder, linkLog, ackLog, probe,
                   fed, wrote, setLog, streamLock, ops, lockQ>>

\* a replica's master connection decodes the next frame of the link
LinkDecode(m) ==
    /\ down[LinkOf(m)] # <<>>
    /\ Head(down[LinkOf(m)]).kind = "array"
    /\ Decode(m, Head(down[LinkOf(m)]).elems)
    /\ down' = [down EXCEPT ![LinkOf(m)] = Tail(@)]
    /\ UNCHANGED <<up_to_date_replicas, database, expiry, now, replica_connections,
                   hashOrder, up, closed, sent, applyOrder, linkLog, ackLog, probe, fed,
                   wrote, setLog, streamLock, ops, lockQ>>

\* redis.rs:91-97: propagate_command_to_replica writes the re-serialized
\* command to the next link of the iteration
Propagate(t) ==
    LET l == Head(todo[t]) IN
    /\ pc[t] = "propagate"
    /\ down' = [down EXCEPT ![l] = Append(@, ArrayItem(command_array(cmd[t])))]
    /\ linkLog' = [linkLog EXCEPT ![l] =
                      Append(@, [id |-> WriteId(t), wire |-> serialize_command(cmd[t])])]
    /\ todo' = [todo EXCEPT ![t] = Tail(@)]
    /\ regReaders' = IF Tail(todo[t]) = <<>> THEN regReaders \ {t} ELSE regReaders
    /\ pc' = [pc EXCEPT ![t] = IF Tail(todo[t]) = <<>> THEN "dispatch" ELSE "propagate"]
    /\ wrote' = [wrote EXCEPT ![l] = Append(@, "write")]
    /\ UNCHANGED <<cmd, total_bytes_processed, write_bytes_processed,
                   write_commands_to_process, up_to_date_replicas, database, expiry,
                   now, replica_connections, hashOrder, up, closed, sent, hist,
                   decodeOrder, applyOrder, ackLog, probe, fed, setLog, streamLock, regAt,
                   ops, lockQ>>

----------------------------------------------------------------------------
(* processing.rs: handlers *)

Dispatching(t, name) == pc[t] = "dispatch" /\ cmd[t].name = name

\* handle_set, processing.rs:47-50
HandleSetDb(t) ==
    LET s == ServerOf(t) IN
    /\ Dispatching(t, "Set")
    /\ database' = [database EXCEPT ![s] = Insert(@, cmd[t].key, cmd[t].value)]
    /\ applyOrder' = IF s = "m" THEN Append(applyOrder, WriteId(t)) ELSE applyOrder
    /\ pc' = [pc EXCEPT ![t] = "set_expiry"]
    /\ UNCHANGED <<cmd, total_bytes_processed, write_bytes_processed,
                   write_commands_to_process, todo, up_to_date_replicas, expiry, now,
                   replica_connections, regReaders, hashOrder, down, up, closed, sent,
                   hist, decodeOrder, linkLog, ackLog, probe, fed,
                   wrote, setLog, streamLock, regAt, ops, lockQ>>

\* handle_set, processing.rs:51-60; a replica returns without a reply (61-65)
HandleSetExpiry(t) ==
    LET s == ServerOf(t) IN
    /\ pc[t] = "set_expiry"
    /\ expiry' = [expiry EXCEPT ![s] =
                    IF cmd[t].lifespan # None
                    THEN Insert(@, cmd[t].key, now + cmd[t].lifespan[1])
                    ELSE Remove(@, cmd[t].key)]
    /\ pc' = [pc EXCEPT ![t] = IF Role(s) = "Master" THEN "set_reply" ELSE "loop"]
    /\ setLog' = [setLog EXCEPT ![s] =
                    Append(@, [key |-> cmd[t].key, value |-> cmd[t].value,
                               lifespan |-> cmd[t].lifespan, at |-> now])]
    /\ UNCHANGED <<cmd, total_bytes_processed, write_bytes_processed,
                   write_commands_to_process, todo, up_to_date_replicas, database, now,
                   replica_connections, regReaders, hashOrder, down, up, closed, sent,
                   hist, decodeOrder, applyOrder, linkLog, ackLog, probe, fed,
                   wrote, streamLock, regAt, ops, lockQ>>

\* handle_set, processing.rs:61-65 on a master
HandleSetReply(t) ==
    /\ pc[t] = "set_reply"
    /\ WriteOwn(t, "Set", serialize_resp_data(SimpleString("OK")), SimpleItem("OK"))
    /\ pc' = [pc EXCEPT ![t] = "loop"]
    /\ UNCHANGED <<cmd, total_bytes_processed, write_bytes_processed,
                   write_commands_to_process, todo, up_to_date_replicas, database,
                   expiry, now, replica_connections, regReaders, hashOrder, down,
                   closed, hist, decodeOrder, applyOrder, linkLog, ackLog, probe, fed,
                   wrote, setLog, streamLock, regAt, ops, lockQ>>

\* handle_ping, processing.rs:30-36: the reply is written on a master only
HandlePing(t) ==
    /\ Dispatching(t, "Ping")
    /\ IF Role(ServerOf(t)) = "Master"
       THEN WriteOwn(t, "Ping", serialize_resp_data(SimpleString("PONG")), SimpleItem("PONG"))
       ELSE UNCHANGED <<sent, up>>
    /\ pc' = [pc EXCEPT ![t] = "loop"]
    /\ UNCHANGED <<cmd, total_bytes_processed, write_bytes_processed,
                   write_commands_to_process, todo, up_to_date_replicas, database,
                   expiry, now, replica_connections, regReaders, hashOrder, down,
                   closed, hist, decodeOrder, applyOrder, linkLog, ackLog, probe, fed,
                   wrote, setLog, streamLock, regAt, ops, lockQ>>

\* handle_echo, processing.rs:19-28: the reply is written on a master only
HandleEcho(t) ==
    /\ Dispatching(t, "Echo")
    /\ IF Role(ServerOf(t)) = "Master"
       THEN WriteOwn(t, "Echo", serialize_resp_data(BulkString(cmd[t].message)), BulkItem)
       ELSE UNCHANGED <<sent, up>>
    /\ pc' = [pc EXCEPT ![t] = "loop"]
    /\ UNCHANGED <<cmd, total_bytes_processed, write_bytes_processed,
                   write_commands_to_process, todo, up_to_date_replicas, database,
                   expiry, now, replica_connections, regReaders, hashOrder, down,
                   closed, hist, decodeOrder, applyOrder, linkLog, ackLog, probe, fed,
                   wrote, setLog, streamLock, regAt, ops, lockQ>>

\* the response handle_get computes, processing.rs:76-87
get_response(db, exp, key) ==
    IF key \in DOMAIN db
    THEN IF key \in DOMAIN exp /\ now > exp[key]
         THEN create_null_string
         ELSE serialize_resp_data(BulkString(db[key]))
    ELSE create_null_string

\* handle_get, processing.rs:68-90: written whatever the role
HandleGet(t) ==
    LET s == ServerOf(t) IN
    /\ Dispatching(t, "Get")
    /\ WriteOwn(t, "Get", get_response(database[s], expiry[s], cmd[t].key), BulkItem)
    /\ pc' = [pc EXCEPT ![t] = "loop"]
    /\ UNCHANGED <<cmd, total_bytes_processed, write_bytes_processed,
                   write_commands_to_process, todo, up_to_date_replicas, database,
                   expiry, now, replica_connections, regReaders, hashOrder, down,
                   closed, hist, decodeOrder, applyOrder, linkLog, ackLog, probe, fed,
                   wrote, setLog, streamLock, regAt, ops, lockQ>>

\* the response of handle_info, processing.rs:93-103
info_response(role) ==
    IF role = "Master"
    THEN serialize_resp_data(BulkString(
            "role:master\nmaster_replid:8371b4fb1155b71f4a04d3e1bc3e18c4a990aeeb\nmaster_repl_offset:0\n"))
    ELSE serialize_resp_data(BulkString("role:slave"))

\* handle_info, processing.rs:92-106: written whatever the role
HandleInfo(t) ==
    /\ Dispatching(t, "Info")
    /\ WriteOwn(t, "Info", info_response(Role(ServerOf(t))), BulkItem)
    /\ pc' = [pc EXCEPT ![t] = "loop"]
    /\ UNCHANGED <<cmd, total_bytes_processed, write_bytes_processed,
                   write_commands_to_process, todo, up_to_date_replicas, database,
                   expiry, now, replica_connections, regReaders, hashOrder, down,
                   closed, hist, decodeOrder, applyOrder, linkLog, ackLog, probe, fed,
                   wrote, setLog, streamLock, regAt, ops, lockQ>>

\* the offset a replica reports, redis.rs:140
getack_offset(total) == total - GetackFrameLen

\* redis.rs:132-143: REPLCONF GETACK; a master panics, a replica replies
\* REPLCONF ACK <offset>.  Every GETACK frame is at least GetackFrameLen bytes
\* long here, so the unsigned subtraction does not wrap.
HandleReplconfGetack(t) ==
    LET n == getack_offset(total_bytes_processed[t]) IN
    /\ Dispatching(t, "ReplConf")
    /\ ToLower(cmd[t].arg1) = "getack"
    /\ IF Role(ServerOf(t)) = "Master"
       THEN /\ pc' = [pc EXCEPT ![t] = "panicked"]
            /\ UNCHANGED <<sent, up, ackLog>>
       ELSE /\ WriteOwn(t, "ReplConf", serialize_array(ack_array(n)), ArrayItem(ack_array(n)))
            /\ ackLog' = [ackLog EXCEPT ![t] = Append(@, [n |-> n, at |-> Len(hist[t])])]
            /\ pc' = [pc EXCEPT ![t] = "loop"]
    /\ UNCHANGED <<cmd, total_bytes_processed, write_bytes_processed,
                   write_commands_to_process, todo, up_to_date_replicas, database,
                   expiry, now, replica_connections, regReaders, hashOrder, down,
                   closed, hist, decodeOrder, applyOrder, linkLog, probe, fed,
                   wrote, setLog, streamLock, regAt, ops, lockQ>>

\* the link registered first, the PSYNC reply and the snapshot left for later
HandlePsync_insertFirst(t) ==
    /\ Dispatching(t, "Psync")
    /\ replica_connections' = replica_connections \cup {t}
    /\ hashOrder' = Append(hashOrder, t)
    /\ pc' = [pc EXCEPT ![t] = "loop"]
    /\ UNCHANGED <<cmd, total_bytes_processed, write_bytes_processed,
                   write_commands_to_process, todo, up_to_date_replicas, database,
                   expiry, now, regReaders, down, up, closed, sent, hist, decodeOrder,
                   applyOrder, linkLog, ackLog, probe, fed, wrote, setLog, streamLock, regAt,
                   ops, lockQ>>

\* redis.rs:147-157: replica::handle_psync answers +FULLRESYNC and writes the
\* snapshot envelope (spec 4.4.2); a replica panics
HandlePsync(t) ==
    /\ Dispatching(t, "Psync")
    /\ IF Role(ServerOf(t)) = "Replica"
       THEN /\ pc' = [pc EXCEPT ![t] = "panicked"]
            /\ UNCHANGED <<down, wrote>>
       ELSE /\ down' = [down EXCEPT ![t] = @ \o <<FullResync, Snapshot>>]
            /\ wrote' = [wrote EXCEPT ![t] = @ \o <<"resync", "rdb">>]
            /\ pc' = [pc EXCEPT ![t] = "psync_insert"]
    /\ UNCHANGED <<cmd, total_bytes_processed, write_bytes_processed,
                   write_commands_to_process, todo, up_to_date_replicas, database,
                   expiry, now, replica_connections, regReaders, hashOrder, up, closed,
                   sent, hist, decodeOrder, applyOrder, linkLog, ackLog, probe, fed,
                   setLog, streamLock, regAt, ops, lockQ>>

\* redis.rs:159-167: the registry is write-locked and the link inserted
PsyncInsert(t) ==
    /\ pc[t] = "psync_insert"
    /\ regReaders = {}
    /\ replica_connections' = replica_connections \cup {t}
    \* where the new key falls in the HashMap's iteration order is arbitrary
    /\ \E k \in 0 .. Len(hashOrder) :
          hashOrder' = SubSeq(hashOrder, 1, k) \o <<t>>
                          \o SubSeq(hashOrder, k + 1, Len(hashOrder))
    /\ pc' = [pc EXCEPT ![t] = "loop"]
    /\ UNCHANGED <<cmd, total_bytes_processed, write_bytes_processed,
                   write_commands_to_process, todo, up_to_date_replicas, database,
                   expiry, now, regReaders, down, up, closed, sent, hist,
                   decodeOrder, applyOrder, linkLog, ackLog, probe, fed,
                   wrote, setLog, streamLock, regAt, ops, lockQ>>

----------------------------------------------------------------------------
(* handle_wait, processing.rs:153-218 *)

\* the count left at its initial value
registry_size_unset(reg) == 0

\* processing.rs:168: replica_connections.values().len()
registry_size(reg) == Cardinality(reg)

\* the counter left as it is
reset_counter_kept(counter) == counter

\* redis.rs:184: write_commands_to_process = 0
reset_counter(counter) == 0

\* processing.rs:165-173: no write since the last WAIT
HandleWaitTrivial(t) ==
    /\ Dispatching(t, "Wait")
    /\ Role(ServerOf(t)) = "Master"
    /\ write_commands_to_process[t] = 0
    /\ WriteOwn(t, "Wait",
                serialize_resp_data(Integer(registry_size(replica_connections))), IntegerItem)
    /\ write_commands_to_process' =
          [write_commands_to_process EXCEPT ![t] = reset_counter(@)]
    /\ pc' = [pc EXCEPT ![t] = "loop"]
    /\ UNCHANGED <<cmd, total_bytes_processed, write_bytes_processed, todo,
                   up_to_date_replicas, database, expiry, now, replica_connections,
                   regReaders, hashOrder, down, closed, hist, decodeOrder, applyOrder,
                   linkLog, ackLog, probe, fed,
                   wrote, setLog, streamLock, regAt, ops, lockQ>>

\* processing.rs:165-180: the registry stays read-locked while the replicas
\* are probed in the order of their fds
HandleWaitStart(t) ==
    LET fds == SortedFds(replica_connections) IN
    /\ Dispatching(t, "Wait")
    /\ Role(ServerOf(t)) = "Master"
    /\ write_commands_to_process[t] # 0
    /\ regReaders' = regReaders \cup {t}
    /\ todo' = [todo EXCEPT ![t] = fds]
    /\ up_to_date_replicas' = [up_to_date_replicas EXCEPT ![t] = 0]
    /\ probe' = [probe EXCEPT ![t] =
                    [state |-> "probing", timedOut |-> FALSE,
                     size |-> Cardinality(replica_connections), asked |-> 0]]
    /\ pc' = [pc EXCEPT ![t] = IF fds = <<>> THEN "wait_reply" ELSE "wait_send"]
    /\ UNCHANGED <<cmd, total_bytes_processed, write_bytes_processed,
                   write_commands_to_process, database, expiry, now,
                   replica_connections, hashOrder, down, up, closed, sent, hist,
                   decodeOrder, applyOrder, linkLog, ackLog, fed,
                   wrote, setLog, streamLock, regAt, ops, lockQ>>

\* how many GETACK frames the master has written on a link
Getacks(l) == Cardinality({i \in DOMAIN wrote[l] : wrote[l][i] = "getack"})

\* processing.rs:185-188: GETACK is written to the replica
WaitSend(t) ==
    LET l == Head(todo[t]) IN
    /\ pc[t] = "wait_send"
    /\ down' = [down EXCEPT ![l] = Append(@, ArrayItem(get_ack_command))]
    /\ pc' = [pc EXCEPT ![t] = "wait_recv"]
    /\ wrote' = [wrote EXCEPT ![l] = Append(@, "getack")]
    /\ probe' = [probe EXCEPT ![t].asked = Getacks(l) + 1]
    /\ UNCHANGED <<cmd, total_bytes_processed, write_bytes_processed,
                   write_commands_to_process, todo, up_to_date_replicas, database,
                   expiry, now, replica_connections, regReaders, hashOrder, up, closed,
                   sent, hist, decodeOrder, applyOrder, linkLog, ackLog, fed, setLog,
                   streamLock, regAt, ops, lockQ>>

\* the for loop of processing.rs:182 moves to the next fd
NextFd(t) ==
    /\ todo' = [todo EXCEPT ![t] = Tail(@)]
    /\ pc' = [pc EXCEPT ![t] = IF Tail(todo[t]) = <<>> THEN "wait_reply" ELSE "wait_send"]

\* processing.rs:197-212: does the reply count the replica as up to date
ack_counts(response, target) ==
    response.arg2 # None /\ ParseNat(response.arg2[1]) >= target

\* processing.rs:191-212: a frame arrives from the replica within the timeout
WaitRecv(t) ==
    LET l        == Head(todo[t])
        response == ParseCommand(Head(up[l]).elems)
    IN  /\ pc[t] = "wait_recv"
        /\ up[l] # <<>>
        /\ up' = [up EXCEPT ![l] = Tail(@)]
        /\ IF response.name = "ReplConf" /\ response.arg1 = "ACK"
           THEN /\ up_to_date_replicas' =
                      [up_to_date_replicas EXCEPT ![t] =
                          IF ack_counts(response, write_bytes_processed[t])
                          THEN @ + 1 ELSE @]
                /\ NextFd(t)
                /\ UNCHANGED regReaders
           ELSE /\ pc' = [pc EXCEPT ![t] = "panicked"]
                /\ regReaders' = regReaders \ {t}
                /\ UNCHANGED <<up_to_date_replicas, todo>>
        /\ UNCHANGED <<cmd, total_bytes_processed, write_bytes_processed,
                       write_commands_to_process, database, expiry, now,
                       replica_connections, hashOrder, down, closed, sent, hist,
                       decodeOrder, applyOrder, linkLog, ackLog, probe, fed,
                   wrote, setLog, streamLock, regAt, ops, lockQ>>

\* processing.rs:194: the timeout elapses with nothing to read; the replica is
\* skipped
WaitTimeout(t) ==
    LET l == Head(todo[t]) IN
    /\ pc[t] = "wait_recv"
    /\ up[l] = <<>>
    /\ ~closed[l]
    /\ probe' = [probe EXCEPT ![t].timedOut = TRUE]
    /\ NextFd(t)
    /\ UNCHANGED <<cmd, total_bytes_processed, write_bytes_processed,
                   write_commands_to_process, up_to_date_replicas, database, expiry,
                   now, replica_connections, regReaders, hashOrder, down, up, closed,
                   sent, hist, decodeOrder, applyOrder, linkLog, ackLog, fed,
                   wrote, setLog, streamLock, regAt, ops, lockQ>>

\* processing.rs:193: parse_command returns None on a closed link and the task
\* panics; unwinding drops the registry guard
WaitEof(t) ==
    LET l == Head(todo[t]) IN
    /\ pc[t] = "wait_recv"
    /\ up[l] = <<>>
    /\ closed[l]
    /\ pc' = [pc EXCEPT ![t] = "panicked"]
    /\ regReaders' = regReaders \ {t}
    /\ UNCHANGED <<cmd, total_bytes_processed, write_bytes_processed,
                   write_commands_to_process, todo, up_to_date_replicas, database,
                   expiry, now, replica_connections, hashOrder, down, up, closed, sent,
                   hist, decodeOrder, applyOrder, linkLog, ackLog, probe, fed,
                   wrote, setLog, streamLock, regAt, ops, lockQ>>

\* processing.rs:215-217 and redis.rs:184: the reply, then the counter is reset
WaitReply(t) ==
    /\ pc[t] = "wait_reply"
    /\ WriteOwn(t, "Wait", serialize_resp_data(Integer(up_to_date_replicas[t])), IntegerItem)
    /\ regReaders' = regReaders \ {t}
    /\ write_commands_to_process' =
          [write_commands_to_process EXCEPT ![t] = reset_counter(@)]
    /\ probe' = [probe EXCEPT ![t].state = "replied"]
    /\ pc' = [pc EXCEPT ![t] = "loop"]
    /\ UNCHANGED <<cmd, total_bytes_processed, write_bytes_processed, todo,
                   up_to_date_replicas, database, expiry, now, replica_connections,
                   hashOrder, down, closed, hist, decodeOrder, applyOrder, linkLog,
                   ackLog, fed,
                   wrote, setLog, streamLock, regAt, ops, lockQ>>

----------------------------------------------------------------------------
(* The replica's end of a link *)

\* replica::perform_handshake consumes +FULLRESYNC and the snapshot envelope
\* before handle_conn starts on the master connection (spec 4.4.3)
ReplicaHandshake(m) ==
    LET l == LinkOf(m) IN
    /\ pc[m] = "handshake"
    /\ Len(down[l]) >= 2
    /\ down[l][1] = FullResync /\ down[l][2] = Snapshot
    /\ down' = [down EXCEPT ![l] = Tail(Tail(@))]
    /\ pc' = [pc EXCEPT ![m] = "loop"]
    /\ UNCHANGED <<cmd, total_bytes_processed, write_bytes_processed,
                   write_commands_to_process, todo, up_to_date_replicas, database,
                   expiry, now, replica_connections, regReaders, hashOrder, up, closed,
                   sent, hist, decodeOrder, applyOrder, linkLog, ackLog, probe, fed,
                   wrote, setLog, streamLock, regAt, ops, lockQ>>

\* the replica process ends and its socket closes.  The master reads a
\* replica's link at processing.rs:191 only, so a close at any earlier moment
\* is seen there as a close while that read waits.
ReplicaClose(m) ==
    LET l == LinkOf(m) IN
    /\ l \in replica_connections
    /\ pc[m] \notin {"off", "closed"}
    /\ ~closed[l]
    /\ \E t \in MClients : pc[t] = "wait_recv" /\ Head(todo[t]) = l /\ up[l] = <<>>
    /\ closed' = [closed EXCEPT ![l] = TRUE]
    /\ pc' = [pc EXCEPT ![m] = "closed"]
    /\ UNCHANGED <<cmd, total_bytes_processed, write_bytes_processed,
                   write_commands_to_process, todo, up_to_date_replicas, database,
                   expiry, now, replica_connections, regReaders, hashOrder, down, up,
                   sent, hist, decodeOrder, applyOrder, linkLog, ackLog, probe, fed,
                   wrote, setLog, streamLock, regAt, ops, lockQ>>

\* some master writes a command frame on the link
MasterFeed(m) ==
    LET l == LinkOf(m) IN
    /\ pc[m] # "off"
    /\ fed < MaxFeed
    /\ \E f \in MasterFrames : down' = [down EXCEPT ![l] = Append(@, ArrayItem(f))]
    /\ fed' = fed + 1
    /\ UNCHANGED <<pc, cmd, total_bytes_processed, write_bytes_processed,
                   write_commands_to_process, todo, up_to_date_replicas, database,
                   expiry, now, replica_connections, regReaders, hashOrder, up, closed,
                   sent, hist, decodeOrder, applyOrder, linkLog, ackLog, probe,
                   wrote, setLog, streamLock, regAt, ops, lockQ>>

----------------------------------------------------------------------------
(* Specifications *)

InitCommon ==
    /\ total_bytes_processed = [t \in Tasks |-> 0]
    /\ write_bytes_processed = [t \in Tasks |-> 0]
    /\ write_commands_to_process = [t \in Tasks |-> 0]
    /\ todo = [t \in Tasks |-> <<>>]
    /\ up_to_date_replicas = [t \in Tasks |-> 0]
    /\ database = [s \in Servers |-> <<>>]
    /\ expiry = [s \in Servers |-> <<>>]
    /\ now = 0
    /\ regReaders = {}
    /\ up = [l \in Links |-> <<>>]
    /\ closed = [l \in Links |-> FALSE]
    /\ sent = [t \in Tasks |-> <<>>]
    /\ decodeOrder = <<>>
    /\ applyOrder = <<>>
    /\ linkLog = [l \in Links |-> <<>>]
    /\ ackLog = [t \in Tasks |-> <<>>]
    /\ probe = [t \in Tasks |-> IdleProbe]
    /\ fed = 0
    /\ setLog = [s \in Servers |-> <<>>]
    /\ streamLock = [l \in Links |-> None]
    /\ regAt = <<>>
    /\ ops = [t \in Tasks |-> <<>>]
    /\ lockQ = [k \in Locks |-> <<>>]

\* a master whose first replica has completed its handshake (redis.rs:147-168
\* ran on l1 and perform_handshake returned on m1) and whose second replica is
\* about to send PSYNC
Init ==
    /\ InitCommon
    /\ replica_connections = {"l1"}
    /\ hist = [t \in Tasks |-> IF t = "l1" THEN <<PsyncFrame>> ELSE <<>>]
    /\ cmd = [t \in Tasks |-> IF t = "l1" THEN ParseCommand(PsyncFrame) ELSE NoCommand]
    /\ pc = [t \in Tasks |->
                IF t \in MClients \cup Links \cup {"m1"} THEN "loop"
                ELSE IF t = "m2" THEN "handshake" ELSE "off"]
    /\ hashOrder = <<"l1">>
    /\ wrote = [l \in Links |-> IF l = "l1" THEN <<"resync", "rdb">> ELSE <<>>]
    /\ down = [l \in Links |-> <<>>]

\* A step that touches only the task's own locals and its own socket commutes
\* with every step of every other task; so does a step of a replica's master
\* connection after the frame is decoded, the replica having no other
\* connection here, and its decode of a frame it does not answer.  Such a step
\* is taken before any other task moves, which leaves out no reachable outcome
\* and keeps the state space small.
OwnStep(t) ==
    \/ pc[t] \in {"set_reply", "wait_reply"}
    \/ pc[t] = "dispatch" /\ cmd[t].name \in {"Psync", "ReplConf"}
    \/ t \in MLinks /\ pc[t] \in {"dispatch", "set_expiry"}
    \/ t \in MLinks /\ pc[t] = "handshake" /\ Len(down[LinkOf(t)]) >= 2
    \/ /\ t \in MLinks /\ pc[t] = "loop" /\ down[LinkOf(t)] # <<>>
       /\ Head(down[LinkOf(t)]).elems[1] # "REPLCONF"

Busy == \E t \in MClients \cup Links \cup MLinks : OwnStep(t)

OwnNext ==
    \/ \E t \in MClients : HandleSetReply(t)
    \/ \E t \in MClients : WaitReply(t)
    \/ \E t \in Links : HandlePsync(t)
    \/ \E m \in MLinks : ReplicaHandshake(m)
    \/ \E m \in MLinks : LinkDecode(m)
    \/ \E m \in MLinks : HandleReplconfGetack(m)
    \/ \E m \in MLinks : HandleSetDb(m)
    \/ \E m \in MLinks : HandleSetExpiry(m)

Next ==
    \/ OwnNext
    \/ \E t \in MClients \cup Links : ClientDecode(t) /\ ~Busy
    \/ \E t \in MClients : Propagate(t) /\ ~Busy
    \/ \E t \in MClients : HandleSetDb(t) /\ ~Busy
    \/ \E t \in MClients : HandleSetExpiry(t) /\ ~Busy
    \/ \E t \in Links : PsyncInsert(t) /\ ~Busy
    \/ \E t \in MClients : HandleWaitTrivial(t) /\ ~Busy
    \/ \E t \in MClients : HandleWaitStart(t) /\ ~Busy
    \/ \E t \in MClients : WaitSend(t) /\ ~Busy
    \/ \E t \in MClients : WaitRecv(t) /\ ~Busy
    \/ \E t \in MClients : WaitTimeout(t) /\ ~Busy
    \/ \E t \in MClients : WaitEof(t) /\ ~Busy
    \/ \E m \in MLinks : ReplicaClose(m) /\ ~Busy

Spec == Init /\ [][Next]_vars

\* the tokio runtime keeps polling every task that can make a step
SpecLive == Init /\ [][Next]_vars /\ WF_vars(Next)

\* replica r1 after its PSYNC was answered, with a client connection of its own
InitReplica ==
    /\ InitCommon
    /\ replica_connections = {}
    /\ hist = [t \in Tasks |-> <<>>]
    /\ cmd = [t \in Tasks |-> NoCommand]
    /\ pc = [t \in Tasks |->
                IF t = "m1" THEN "handshake" ELSE IF t = "rc" THEN "loop" ELSE "off"]
    /\ hashOrder = <<>>
    /\ wrote = [l \in Links |-> <<>>]
    /\ down = [l \in Links |-> IF l = "l1" THEN <<FullResync, Snapshot>> ELSE <<>>]

NextReplica ==
    \/ \E t \in RClients : ClientDecode(t)
    \/ \E m \in MLinks : LinkDecode(m)
    \/ \E m \in MLinks : MasterFeed(m)
    \/ \E m \in MLinks : ReplicaHandshake(m)
    \/ \E t \in MLinks \cup RClients : HandleSetDb(t)
    \/ \E t \in MLinks \cup RClients : HandleSetExpiry(t)
    \/ \E t \in MLinks \cup RClients : HandlePing(t)
    \/ \E t \in MLinks \cup RClients : HandleEcho(t)
    \/ \E t \in MLinks \cup RClients : HandleGet(t)
    \/ \E t \in MLinks \cup RClients : HandleInfo(t)
    \/ \E t \in MLinks \cup RClients : HandleReplconfGetack(t)
    \/ \E t \in RClients : HandlePsync(t)

SpecReplica == InitReplica /\ [][NextReplica]_vars

----------------------------------------------------------------------------
(* The store seen from one client connection of a master without replicas *)

\* SystemTime::now() advances
Tick ==
    /\ now < MaxNow
    /\ now' = now + 1
    /\ UNCHANGED <<pc, cmd, total_bytes_processed, write_bytes_processed,
                   write_commands_to_process, todo, up_to_date_replicas, database,
                   expiry, replica_connections, regReaders, hashOrder, down, up,
                   closed, sent, hist, decodeOrder, applyOrder, linkLog, ackLog, probe,
                   fed, wrote, setLog, streamLock, regAt, ops, lockQ>>

\* a SET or GET frame arrives on the connection
StoreDecode(t) ==
    /\ Delivered < MaxStoreFrames
    /\ \E f \in StoreFrames : Decode(t, f)
    /\ UNCHANGED <<up_to_date_replicas, database, expiry, now, replica_connections,
                   hashOrder, down, up, closed, sent, applyOrder, linkLog, ackLog,
                   probe, fed, wrote, setLog, streamLock, ops, lockQ>>

InitStore ==
    /\ InitCommon
    /\ replica_connections = {}
    /\ hist = [t \in Tasks |-> <<>>]
    /\ cmd = [t \in Tasks |-> NoCommand]
    /\ pc = [t \in Tasks |-> IF t = "c1" THEN "loop" ELSE "off"]
    /\ hashOrder = <<>>
    /\ wrote = [l \in Links |-> <<>>]
    /\ down = [l \in Links |-> <<>>]

NextStore ==
    \/ Tick
    \/ StoreDecode("c1")
    \/ HandleSetDb("c1")
    \/ HandleSetExpiry("c1")
    \/ HandleSetReply("c1")
    \/ HandleGet("c1")

SpecStore == InitStore /\ [][NextStore]_vars

----------------------------------------------------------------------------
(* One link's writer half, write by write: a frame leaves in two parts *)

\* the client connections of this view send SET and WAIT
WireFrames == {SetPlain, WaitFrame}

\* a SET or WAIT frame arrives on a client connection
WireDecode(t) ==
    /\ Delivered < MaxWireFrames
    /\ \E f \in WireFrames : Decode(t, f)
    /\ UNCHANGED <<up_to_date_replicas, database, expiry, now, replica_connections,
                   hashOrder, down, up, closed, sent, applyOrder, linkLog, ackLog,
                   probe, fed, wrote, setLog, streamLock, ops, lockQ>>

\* the frame a task is about to write on a link: GETACK for WAIT, else the
\* command it propagates
link_frame(t) ==
    IF cmd[t].name = "Wait" THEN get_ack_command ELSE command_array(cmd[t])

\* the part of a frame one poll of write_all puts on the wire
Chunk(part, t) == [kind |-> part, elems |-> link_frame(t), by |-> t]

\* the guard handed out whoever holds it
stream_write_unchecked(l) == TRUE

\* RwLock::write() on a stream returns when no other guard is out
stream_write_free(l) == streamLock[l] = None

\* processing.rs:186, and propagate_command_to_replica: the writer takes the
\* stream's write guard
LinkLock(t) ==
    LET l == Head(todo[t]) IN
    /\ pc[t] \in {"propagate", "wait_send"}
    /\ stream_write_free(l)
    /\ streamLock' = [streamLock EXCEPT ![l] = Some(t)]
    /\ pc' = [pc EXCEPT ![t] = "link_head"]
    /\ UNCHANGED <<cmd, total_bytes_processed, write_bytes_processed,
                   write_commands_to_process, todo, up_to_date_replicas, database,
                   expiry, now, replica_connections, regReaders, hashOrder, down, up,
                   closed, sent, hist, decodeOrder, applyOrder, linkLog, ackLog, probe,
                   fed, wrote, setLog, regAt, ops, lockQ>>

\* processing.rs:187: write_all, the socket takes the first part of the frame
\* and the task is suspended
LinkWriteHead(t) ==
    LET l == Head(todo[t]) IN
    /\ pc[t] = "link_head"
    /\ down' = [down EXCEPT ![l] = Append(@, Chunk("head", t))]
    /\ pc' = [pc EXCEPT ![t] = "link_tail"]
    /\ UNCHANGED <<cmd, total_bytes_processed, write_bytes_processed,
                   write_commands_to_process, todo, up_to_date_replicas, database,
                   expiry, now, replica_connections, regReaders, hashOrder, up, closed,
                   sent, hist, decodeOrder, applyOrder, linkLog, ackLog, probe, fed,
                   wrote, setLog, streamLock, regAt, ops, lockQ>>

\* processing.rs:187-188: write_all completes and the guard is dropped; the
\* propagation moves to the next link (redis.rs:91-97), the WAIT to its read
LinkWriteTail(t) ==
    LET l    == Head(todo[t])
        wait == cmd[t].name = "Wait"
        last == Tail(todo[t]) = <<>>
    IN  /\ pc[t] = "link_tail"
        /\ down' = [down EXCEPT ![l] = Append(@, Chunk("tail", t))]
        /\ streamLock' = [streamLock EXCEPT ![l] = None]
        /\ wrote' = [wrote EXCEPT ![l] = Append(@, IF wait THEN "getack" ELSE "write")]
        /\ probe' = IF wait THEN [probe EXCEPT ![t].asked = Getacks(l) + 1] ELSE probe
        /\ linkLog' = IF wait THEN linkLog
                      ELSE [linkLog EXCEPT ![l] =
                               Append(@, [id |-> WriteId(t),
                                          wire |-> serialize_command(cmd[t])])]
        /\ todo' = IF wait THEN todo ELSE [todo EXCEPT ![t] = Tail(@)]
        /\ regReaders' = IF ~wait /\ last THEN regReaders \ {t} ELSE regReaders
        /\ pc' = [pc EXCEPT ![t] =
                    IF wait THEN "wait_recv"
                    ELSE IF last THEN "dispatch" ELSE "propagate"]
        /\ UNCHANGED <<cmd, total_bytes_processed, write_bytes_processed,
                       write_commands_to_process, up_to_date_replicas, database,
                       expiry, now, replica_connections, hashOrder, up, closed, sent,
                       hist, decodeOrder, applyOrder, ackLog, fed, setLog, regAt,
                   ops, lockQ>>

\* the replica of this view answers no probe: every WAIT runs into its timeout
NextWire ==
    \/ \E t \in MClients : WireDecode(t)
    \/ \E t \in MClients : LinkLock(t)
    \/ \E t \in MClients : LinkWriteHead(t)
    \/ \E t \in MClients : LinkWriteTail(t)
    \/ \E t \in MClients : HandleSetDb(t)
    \/ \E t \in MClients : HandleSetExpiry(t)
    \/ \E t \in MClients : HandleSetReply(t)
    \/ \E t \in MClients : HandleWaitTrivial(t)
    \/ \E t \in MClients : HandleWaitStart(t)
    \/ \E t \in MClients : WaitTimeout(t)
    \/ \E t \in MClients : WaitReply(t)

SpecWire == Init /\ [][NextWire]_vars

----------------------------------------------------------------------------
(* Two client connections that each write and then WAIT *)

\* what a connection sends next: a SET, then a WAIT for it
WaitScript(t) ==
    CASE Len(hist[t]) = 0 -> {SetPlain}
      [] Len(hist[t]) = 1 -> {WaitFrame}
      [] OTHER            -> {}

\* the next frame of the script arrives on a client connection
WaitDecode(t) ==
    /\ Delivered < MaxWaitFrames
    /\ \E f \in WaitScript(t) : Decode(t, f)
    /\ UNCHANGED <<up_to_date_replicas, database, expiry, now, replica_connections,
                   hashOrder, down, up, closed, sent, applyOrder, linkLog, ackLog,
                   probe, fed, wrote, setLog, streamLock, ops, lockQ>>

\* the master with replica l1 registered; no other replica connects
NextWait ==
    \/ \E t \in MClients : HandleSetReply(t)
    \/ \E t \in MClients : WaitReply(t)
    \/ \E m \in MLinks : LinkDecode(m)
    \/ \E m \in MLinks : HandleReplconfGetack(m)
    \/ \E m \in MLinks : HandleSetDb(m)
    \/ \E m \in MLinks : HandleSetExpiry(m)
    \/ \E t \in MClients : WaitDecode(t) /\ ~Busy
    \/ \E t \in MClients : Propagate(t) /\ ~Busy
    \/ \E t \in MClients : HandleSetDb(t) /\ ~Busy
    \/ \E t \in MClients : HandleSetExpiry(t) /\ ~Busy
    \/ \E t \in MClients : HandleWaitStart(t) /\ ~Busy
    \/ \E t \in MClients : WaitSend(t) /\ ~Busy
    \/ \E t \in MClients : WaitRecv(t) /\ ~Busy
    \/ \E t \in MClients : WaitTimeout(t) /\ ~Busy

SpecWait == Init /\ [][NextWait]_vars

----------------------------------------------------------------------------
(* The master's connection tasks seen as users of its locks.  Every lock is a
   tokio Mutex or RwLock, which serves its waiters first come, first served:
   lockQ keeps, per lock, the holders and the waiters in order of arrival. *)

LockTasks == MClients \cup Links

\* the variables this view leaves alone
LockRest == <<pc, total_bytes_processed, write_bytes_processed, todo,
              up_to_date_replicas, database, expiry, now, regReaders, down, up,
              closed, sent, decodeOrder, applyOrder, linkLog, ackLog, probe, fed,
              wrote, setLog, streamLock, regAt>>

Acq(k, mode) == [op |-> "acq", lock |-> k, mode |-> mode]
Rel(k)       == [op |-> "rel", lock |-> k, mode |-> "-"]
Do(what)     == [op |-> what, lock |-> "-", mode |-> "-"]

\* the stream's guard kept while the registry's is awaited
classify_ops_streamHeld(t) ==
    <<Acq(t, "r"), Acq("registry", "r"), Do("decide"), Rel("registry"), Rel(t)>>

\* redis.rs:68, is_stream_replica(replica_connections, stream): the registry is
\* read-locked and the stream's key is taken as at redis.rs:163, under a guard
\* that lives for that statement
classify_ops(t) ==
    <<Acq("registry", "r"), Acq(t, "r"), Rel(t), Do("decide"), Rel("registry")>>

\* redis.rs:69, parser.parse_command(): the parser reads the task's stream
parse_ops(t) == <<Acq(t, "w"), Do("parse"), Rel(t)>>

\* redis.rs:88-99: the registry's read guard lives to the end of the block
fanout_ops(command) ==
    IF is_write(command)
    THEN <<Acq("registry", "r"), Do("fanout"), Rel("registry")>>
    ELSE <<>>

\* processing.rs:47-65, handle_set on a master
set_ops(t) ==
    <<Acq("db", "w"), Rel("db"), Acq("expiry", "w"), Rel("expiry"),
      Acq(t, "w"), Rel(t)>>

\* processing.rs:74-90, handle_get: the guards are dropped at the return, in
\* the reverse of the order taken
get_ops(t) ==
    <<Acq("db", "w"), Acq("expiry", "r"), Acq(t, "w"),
      Rel(t), Rel("expiry"), Rel("db")>>

\* processing.rs:142-151, handle_keys
keys_ops(t) == <<Acq("db", "w"), Acq(t, "w"), Rel(t), Rel("db")>>

\* redis.rs:151-167: handle_psync writes on the stream, then the registry is
\* write-locked and the stream's fd read for the insert
psync_ops(t) ==
    <<Acq(t, "w"), Rel(t), Acq("registry", "w"), Acq(t, "r"), Rel(t),
      Do("insert"), Rel("registry")>>

\* processing.rs:165-218 and redis.rs:184
wait_ops(t) ==
    <<Acq("registry", "r"), Do("probe"), Acq(t, "w"), Rel(t), Rel("registry"),
      Do("reset")>>

\* processing.rs:185-195: GETACK under the replica stream's write guard, then
\* the probe's parser reads that stream until the reply or the timeout
probe_ops(l) == <<Acq(l, "w"), Rel(l), Acq(l, "w"), Do("reply_or_timeout"), Rel(l)>>

\* propagate_command_to_replica, redis.rs:92-96: the frame is written under
\* the replica stream's write guard
propagate_ops(l) == <<Acq(l, "w"), Rel(l)>>

\* redis.rs:101-193: the match on the command
handler_ops(t, command) ==
    CASE command.name = "Set"   -> set_ops(t)
      [] command.name = "Get"   -> get_ops(t)
      [] command.name = "Keys"  -> keys_ops(t)
      [] command.name = "Psync" -> psync_ops(t)
      [] command.name = "Wait"  -> wait_ops(t)

\* the operations of one link after the other
RECURSIVE ForEach(_, _)
ForEach(links, kind) ==
    IF links = <<>> THEN <<>>
    ELSE (IF kind = "fanout" THEN propagate_ops(Head(links)) ELSE probe_ops(Head(links)))
         \o ForEach(Tail(links), kind)

KeysFrame == <<"KEYS", "*">>

\* frames the clients of this view send
LockFrames == {SetPlain, GetFrame, KeysFrame, WaitFrame}

HeadOp(t) == IF ops[t] = <<>> THEN Do("none") ELSE Head(ops[t])

\* where a task's entry stands in a lock's queue
QueuePos(k, t) == CHOOSE i \in DOMAIN lockQ[k] : lockQ[k][i].task = t

\* tokio's RwLock and Mutex: a writer holds the lock when it is first in the
\* queue, a reader when no writer stands before it
Granted(k, t) ==
    LET i == QueuePos(k, t) IN
    IF lockQ[k][i].mode = "w" THEN i = 1
    ELSE \A j \in 1 .. i - 1 : lockQ[k][j].mode = "r"

\* redis.rs:64: the loop starts its next iteration
LoopTop(t) ==
    /\ ops[t] = <<>>
    /\ ops' = [ops EXCEPT ![t] = classify_ops(t)]
    /\ UNCHANGED <<lockQ, hist, cmd, write_commands_to_process, replica_connections,
                   hashOrder>>
    /\ UNCHANGED LockRest

\* lock().await, read().await, write().await: the task joins the lock's queue
LockRequest(t) ==
    LET o == HeadOp(t) IN
    /\ o.op = "acq"
    /\ lockQ' = [lockQ EXCEPT ![o.lock] = Append(@, [task |-> t, mode |-> o.mode])]
    /\ ops' = [ops EXCEPT ![t] = <<[o EXCEPT !.op = "await"]>> \o Tail(@)]
    /\ UNCHANGED <<hist, cmd, write_commands_to_process, replica_connections, hashOrder>>
    /\ UNCHANGED LockRest

\* the await returns the guard
LockGrant(t) ==
    LET o == HeadOp(t) IN
    /\ o.op = "await"
    /\ Granted(o.lock, t)
    /\ ops' = [ops EXCEPT ![t] = Tail(@)]
    /\ UNCHANGED <<lockQ, hist, cmd, write_commands_to_process, replica_connections,
                   hashOrder>>
    /\ UNCHANGED LockRest

\* the guard is dropped
LockRelease(t) ==
    LET o == HeadOp(t) IN
    /\ o.op = "rel"
    /\ lockQ' = [lockQ EXCEPT ![o.lock] = SelectSeq(@, LAMBDA e : e.task # t)]
    /\ ops' = [ops EXCEPT ![t] = Tail(@)]
    /\ UNCHANGED <<hist, cmd, write_commands_to_process, replica_connections, hashOrder>>
    /\ UNCHANGED LockRest

\* redis.rs:68-85: a replica's stream is not read, the loop sleeps
Decide(t) ==
    /\ HeadOp(t).op = "decide"
    /\ ops' = [ops EXCEPT ![t] =
                  Tail(@) \o (IF is_stream_replica(t) THEN <<Do("sleep")>>
                              ELSE parse_ops(t))]
    /\ UNCHANGED <<lockQ, hist, cmd, write_commands_to_process, replica_connections,
                   hashOrder>>
    /\ UNCHANGED LockRest

\* redis.rs:83: tokio::time::sleep returns
Sleep(t) ==
    /\ HeadOp(t).op = "sleep"
    /\ ops' = [ops EXCEPT ![t] = Tail(@)]
    /\ UNCHANGED <<lockQ, hist, cmd, write_commands_to_process, replica_connections,
                   hashOrder>>
    /\ UNCHANGED LockRest

\* redis.rs:69-77: a frame arrives; a connection from a replica sends PSYNC
Parse(t) ==
    /\ HeadOp(t).op = "parse"
    /\ t \in MClients => Delivered < MaxLockFrames
    /\ t \in Links => hist[t] = <<>>
    /\ \E f \in (IF t \in MClients THEN LockFrames ELSE {PsyncFrame}) :
          LET command == ParseCommand(f) IN
          /\ hist' = [hist EXCEPT ![t] = Append(@, f)]
          /\ cmd' = [cmd EXCEPT ![t] = command]
          /\ write_commands_to_process' =
                IF is_write(command)
                THEN [write_commands_to_process EXCEPT ![t] = @ + 1]
                ELSE write_commands_to_process
          /\ ops' = [ops EXCEPT ![t] =
                        Tail(@) \o fanout_ops(command) \o handler_ops(t, command)]
    /\ UNCHANGED <<lockQ, replica_connections, hashOrder>>
    /\ UNCHANGED LockRest

\* redis.rs:90-91 and processing.rs:167-182: under the registry's read guard
\* the task finds the links it will visit
Expand(t) ==
    LET o == HeadOp(t) IN
    /\ o.op \in {"fanout", "probe"}
    /\ ops' = [ops EXCEPT ![t] =
                  (IF o.op = "fanout" THEN ForEach(IterOrder(replica_connections), "fanout")
                   ELSE IF write_commands_to_process[t] = 0 THEN <<>>
                   ELSE ForEach(SortedFds(replica_connections), "probe"))
                  \o Tail(@)]
    /\ UNCHANGED <<lockQ, hist, cmd, write_commands_to_process, replica_connections,
                   hashOrder>>
    /\ UNCHANGED LockRest

\* processing.rs:191-195: the replica's reply arrives or the timeout elapses
ProbeDone(t) ==
    /\ HeadOp(t).op = "reply_or_timeout"
    /\ ops' = [ops EXCEPT ![t] = Tail(@)]
    /\ UNCHANGED <<lockQ, hist, cmd, write_commands_to_process, replica_connections,
                   hashOrder>>
    /\ UNCHANGED LockRest

\* redis.rs:184
CounterReset(t) ==
    /\ HeadOp(t).op = "reset"
    /\ write_commands_to_process' = [write_commands_to_process EXCEPT ![t] = reset_counter(@)]
    /\ ops' = [ops EXCEPT ![t] = Tail(@)]
    /\ UNCHANGED <<lockQ, hist, cmd, replica_connections, hashOrder>>
    /\ UNCHANGED LockRest

\* redis.rs:164: connections.insert(fd, stream)
RegistryInsert(t) ==
    /\ HeadOp(t).op = "insert"
    /\ replica_connections' = replica_connections \cup {t}
    /\ \E i \in 0 .. Len(hashOrder) :
          hashOrder' = SubSeq(hashOrder, 1, i) \o <<t>>
                          \o SubSeq(hashOrder, i + 1, Len(hashOrder))
    /\ ops' = [ops EXCEPT ![t] = Tail(@)]
    /\ UNCHANGED <<lockQ, hist, cmd, write_commands_to_process>>
    /\ UNCHANGED LockRest

\* the stream of a connection that is not in the registry is known to its
\* own task only (redis.rs:50, 164)
Unshared(k) == k \in MClients \cup Links /\ k \notin replica_connections

\* A step that takes a guard already granted, drops one, or works on what the
\* task holds or owns neither enables nor disables a step of another task, and
\* a task about to take such a step waits for no lock; the same holds for
\* joining the queue of a stream no other task knows.  Such steps are taken
\* first, one task at a time; joining any other queue, the arrival of a frame
\* and the end of a probe's read are interleaved in every order.
HasLocal(t) ==
    \/ ops[t] = <<>>
    \/ HeadOp(t).op = "acq" /\ HeadOp(t).lock = t /\ Unshared(t)
    \/ HeadOp(t).op \in {"rel", "decide", "sleep", "fanout", "probe", "reset", "insert"}
    \/ HeadOp(t).op = "await" /\ Granted(HeadOp(t).lock, t)

TaskRank(t) == CASE t = "c1" -> 1 [] t = "c2" -> 2 [] t = "l1" -> 3 [] OTHER -> 4

FirstLocal(t) ==
    HasLocal(t) /\ \A u \in LockTasks : HasLocal(u) => TaskRank(t) <= TaskRank(u)

LockBusy == \E t \in LockTasks : HasLocal(t)

NextLocks ==
    \/ \E t \in LockTasks : FirstLocal(t) /\ LoopTop(t)
    \/ \E t \in LockTasks : FirstLocal(t) /\ LockGrant(t)
    \/ \E t \in LockTasks : FirstLocal(t) /\ LockRelease(t)
    \/ \E t \in LockTasks : FirstLocal(t) /\ Decide(t)
    \/ \E t \in LockTasks : FirstLocal(t) /\ Sleep(t)
    \/ \E t \in LockTasks : FirstLocal(t) /\ Expand(t)
    \/ \E t \in LockTasks : FirstLocal(t) /\ CounterReset(t)
    \/ \E t \in LockTasks : FirstLocal(t) /\ RegistryInsert(t)
    \/ \E t \in LockTasks : FirstLocal(t) /\ LockRequest(t)
    \/ \E t \in LockTasks : ~LockBusy /\ LockRequest(t)
    \/ \E t \in LockTasks : ~LockBusy /\ Parse(t)
    \/ \E t \in LockTasks : ~LockBusy /\ ProbeDone(t)

SpecLocks == Init /\ [][NextLocks]_vars

----------------------------------------------------------------------------
(* Properties *)

\* position of a write id in a log of distinct ids
Pos(log, id) == CHOOSE i \in DOMAIN log : log[i] = id

Ids(log) == {log[i] : i \in DOMAIN log}

LinkIds(l) == [i \in DOMAIN linkLog[l] |-> linkLog[l][i].id]

\* the frame a write id names
FrameOf(id) == hist[id[1]][id[2]]

RECURSIVE SumLen(_)
SumLen(frames) ==
    IF frames = <<>> THEN 0 ELSE FrameLen(Head(frames)) + SumLen(Tail(frames))

\* every task of the master is between two commands and the links are drained
Quiescent ==
    /\ \A t \in MClients \cup Links : pc[t] \in {"loop", "panicked"}
    /\ \A m \in MLinks : pc[m] \in {"loop", "closed"}
    /\ \A l \in Links : down[l] = <<>>

\* C1: on every replica link the propagated writes appear in the order in
\* which the master applied them to its store, and once every write is applied
\* and the links are drained, a live replica holds the master's value of every
\* key.
C1_LinkOrderIsApplyOrder ==
    /\ \A l \in Links : \A i, j \in DOMAIN linkLog[l] :
          (/\ i < j
           /\ linkLog[l][i].id \in Ids(applyOrder)
           /\ linkLog[l][j].id \in Ids(applyOrder))
          => Pos(applyOrder, linkLog[l][i].id) < Pos(applyOrder, linkLog[l][j].id)
    /\ Quiescent =>
          \A m \in MLinks :
              (pc[m] = "loop" /\ Len(linkLog[LinkOf(m)]) = Len(applyOrder))
              => database[ServerOf(m)] = database["m"]

\* C2: every link receives the writes in the order in which the master
\* decoded them from its client connections, so two links never receive two
\* writes in opposite orders.
C2_LinkOrderIsDecodeOrder ==
    /\ \A l \in Links : \A i, j \in DOMAIN linkLog[l] :
          i < j => Pos(decodeOrder, linkLog[l][i].id) < Pos(decodeOrder, linkLog[l][j].id)
    /\ \A a, b \in Ids(LinkIds("l1")) \cap Ids(LinkIds("l2")) :
          Pos(LinkIds("l1"), a) < Pos(LinkIds("l1"), b)
          => Pos(LinkIds("l2"), a) < Pos(LinkIds("l2"), b)

\* C3: what the master writes on a link for a write is the raw frame the
\* client sent, PX lifetime included: the same bytes, hence as many bytes as
\* were added to the connection's write_bytes_processed.
C3_PropagatedBytesAreRawFrame ==
    \A l \in Links : \A i \in DOMAIN linkLog[l] :
        /\ linkLog[l][i].wire = serialize_array(FrameOf(linkLog[l][i].id))
        /\ Len(linkLog[l][i].wire) = FrameLen(FrameOf(linkLog[l][i].id))

\* C4: on a replica, the master connection's total_bytes_processed is the sum
\* of the lengths of the frames decoded from the link since the handshake: 0
\* while the handshake replies and the snapshot are consumed, writes and other
\* frames alike, whatever the replica's other connections decode.
C4_OffsetIsSumOfFrameLengths ==
    \A m \in MLinks :
        /\ total_bytes_processed[m] = SumLen(hist[m])
        /\ pc[m] = "handshake" => total_bytes_processed[m] = 0

\* C4 witness: the link has delivered a write and another frame after the
\* snapshot, and a client connection of the replica has decoded frames too
C4_Witness ==
    /\ Len(hist["m1"]) = 2
    /\ is_write(ParseCommand(hist["m1"][1])) /\ ~is_write(ParseCommand(hist["m1"][2]))
    /\ Len(hist["rc"]) >= 1
    /\ total_bytes_processed["m1"] > 0
    /\ total_bytes_processed["rc"] > 0

\* C5: the n of every REPLCONF ACK <n> is the sum of the lengths of the frames
\* decoded from the master before the GETACK frame it answers, whatever
\* GETACK frame the decoder accepted.
C5_AckIsOffsetBeforeGetack ==
    \A m \in MLinks : \A i \in DOMAIN ackLog[m] :
        ackLog[m][i].n = SumLen(SubSeq(hist[m], 1, ackLog[m][i].at - 1))

IsSetFrame(f) == is_write(ParseCommand(f))

IsWaitFrame(f) == ParseCommand(f).name = "Wait"

Front(h) == SubSeq(h, 1, Len(h) - 1)

\* the write frames of a connection's history that no WAIT follows
WritesAfterLastWait(h) ==
    Cardinality({i \in DOMAIN h :
                    IsSetFrame(h[i]) /\ \A j \in DOMAIN h : j > i => ~IsWaitFrame(h[j])})

\* the connection's loop is inside the WAIT it decoded last
InWait(t) == cmd[t].name = "Wait" /\ pc[t] \in {"dispatch"} \cup WaitPcs

C7_AllAckedWaitRepliesK ==
    \A t \in MClients :
        (probe[t].state = "replied" /\ ~probe[t].timedOut)
        => up_to_date_replicas[t] = probe[t].size

\* C8: on a live master client connection the counter of writes since the
\* last WAIT is the number of write frames the connection accepted after its
\* last completed WAIT, and write_bytes_processed is the total length of all
\* write frames it ever accepted: a WAIT resets the former on its own
\* connection only and never touches the latter.
C8_CounterCountsWritesSinceWait ==
    \A t \in MClients :
        pc[t] # "panicked" =>
            /\ write_commands_to_process[t] =
                  IF InWait(t) THEN WritesAfterLastWait(Front(hist[t]))
                  ELSE WritesAfterLastWait(hist[t])
            /\ write_bytes_processed[t] = SumLen(SelectSeq(hist[t], IsSetFrame))

\* C8 witness: a connection finished a probing WAIT after a write with a PX
\* lifetime; its counter is back to 0 and its byte count is the frame's length
C8_Witness ==
    \E t \in MClients :
        /\ hist[t] = <<SetPx, WaitFrame>>
        /\ probe[t].state = "replied" /\ pc[t] = "loop"
        /\ write_commands_to_process[t] = 0
        /\ write_bytes_processed[t] = 44

\* C9: a WAIT that started probing is still probing or has sent its integer
\* reply: it never ends without one.
C9_ProbingWaitEndsWithOneReply ==
    \A t \in MClients :
        /\ probe[t].state = "probing" => pc[t] \in WaitPcs
        /\ probe[t].state = "replied" =>
              \E i \in DOMAIN sent[t] :
                  /\ sent[t][i].for = "Wait"
                  /\ sent[t][i].bytes = ":" \o FormatNat(up_to_date_replicas[t]) \o "\r\n"

\* C10: a server in the replica role writes no response to PING, ECHO, SET or
\* INFO on any of its connections, and on the master connection it writes
\* nothing but REPLCONF ACK replies.
C10_ReplicaIsSilent ==
    \A t \in MLinks \cup RClients : \A i \in DOMAIN sent[t] :
        /\ sent[t][i].for \notin {"Ping", "Echo", "Set", "Info"}
        /\ t \in MLinks => sent[t][i].for = "ReplConf"

\* the store that results from applying the writes among frames, in order
RECURSIVE StoreOf(_)
StoreOf(frames) ==
    IF frames = <<>> THEN <<>>
    ELSE LET command == ParseCommand(frames[Len(frames)]) IN
         IF is_write(command)
         THEN Insert(StoreOf(Front(frames)), command.key, command.value)
         ELSE StoreOf(Front(frames))

\* C11: the store of a replica is the result of applying, in stream order, the
\* writes of a decoded prefix of the master's propagation stream; a write
\* accepted on another connection of the replica never changes it.
C11_ReplicaStoreIsStreamPrefix ==
    \E n \in 0 .. Len(hist["m1"]) :
        database["r1"] = StoreOf(SubSeq(hist["m1"], 1, n))

\* C12: after a replica link has closed, the registry eventually no longer
\* contains it.
C12_ClosedLinkLeavesRegistry ==
    \A l \in Links : closed[l] ~> (l \notin replica_connections)

\* the last SET of a key in a server's log, None if there is none
LastSet(log, key) ==
    LET idx == {i \in DOMAIN log : log[i].key = key} IN
    IF idx = {} THEN None
    ELSE Some(log[CHOOSE i \in idx : \A j \in idx : j <= i])

\* C13: GET k answers the value of the last SET k while the clock is before
\* that SET's deadline (the time of the SET plus its PX lifetime) or the SET
\* had no lifetime, and the null bulk string once the deadline has passed or
\* when the key was never set.
C13_GetHonoursLifetime ==
    [][\A t \in MClients :
          (Dispatching(t, "Get") /\ pc'[t] # pc[t]) =>
              LET last  == LastSet(setLog[ServerOf(t)], cmd[t].key)
                  reply == sent'[t][Len(sent'[t])]
              IN  /\ Len(sent'[t]) = Len(sent[t]) + 1
                  /\ reply.for = "Get"
                  /\ last = None => reply.bytes = "$-1\r\n"
                  /\ (last # None /\ last[1].lifespan = None)
                        => reply.bytes = serialize_bulk_string(last[1].value)
                  /\ (last # None /\ last[1].lifespan # None
                        /\ now < last[1].at + last[1].lifespan[1])
                        => reply.bytes = serialize_bulk_string(last[1].value)
                  /\ (last # None /\ last[1].lifespan # None
                        /\ now > last[1].at + last[1].lifespan[1])
                        => reply.bytes = "$-1\r\n"]_vars

\* C13 witness: SET with PX, a GET after the deadline answered with the null
\* bulk string, then SET without PX and a GET answered with the value
C13_Witness ==
    /\ hist["c1"] = <<SetPx, GetFrame, SetPlain, GetFrame>>
    /\ now = 2
    /\ sent["c1"] = << [for |-> "Set", bytes |-> "+OK\r\n"],
                       [for |-> "Get", bytes |-> "$-1\r\n"],
                       [for |-> "Set", bytes |-> "+OK\r\n"],
                       [for |-> "Get", bytes |-> "$2\r\nv1\r\n"] >>

\* C14: once a connection of a server has received a frame that violates the
\* server's role, no connection of that server decodes, dispatches or answers
\* anything any more.
C14_RoleViolationStopsServer ==
    [][\A t \in Tasks :
          pc[t] = "panicked" =>
              \A u \in Tasks :
                  ServerOf(u) = ServerOf(t) =>
                      pc'[u] = pc[u] /\ hist'[u] = hist[u] /\ sent'[u] = sent[u]]_vars

\* C15: a link of the registry has received the PSYNC reply and the whole
\* snapshot envelope, and every propagated write and every GETACK on a link
\* comes after them.
C15_RegisteredAfterSnapshot ==
    \A l \in Links :
        /\ l \in replica_connections =>
              /\ Len(wrote[l]) >= 2
              /\ wrote[l][1] = "resync" /\ wrote[l][2] = "rdb"
        /\ \A i \in DOMAIN wrote[l] :
              wrote[l][i] \in {"write", "getack"} =>
                  i > 2 /\ wrote[l][1] = "resync" /\ wrote[l][2] = "rdb"

\* C15 witness: the link that sent PSYNC during the run is registered and has
\* then received a propagated write
C15_Witness ==
    /\ "l2" \in replica_connections
    /\ Len(wrote["l2"]) >= 3
    /\ wrote["l2"][3] = "write"

\* the command of the write that the master's store applied last for a key
LastApplied(key) ==
    LET idx == {i \in DOMAIN applyOrder : ParseCommand(FrameOf(applyOrder[i])).key = key}
    IN  ParseCommand(FrameOf(applyOrder[CHOOSE i \in idx : \A j \in idx : j <= i]))

\* C16: when no SET is in progress on the master, a key has an entry in the
\* expiry map exactly when the SET that wrote the key's current value carried
\* a lifetime.
C16_ExpiryMatchesCurrentValue ==
    (\A t \in MClients : pc[t] \in {"loop", "panicked"}) =>
        \A k \in DOMAIN database["m"] :
            (k \in DOMAIN expiry["m"]) <=> (LastApplied(k).lifespan # None)

\* C17: the loop of a connection that is in the replica registry decodes and
\* dispatches nothing more, and what the replica writes on the link is taken
\* off it only by a WAIT that is reading that link.
C17_RegisteredLinkIsParked ==
    [][\A l \in Links :
          l \in replica_connections =>
              /\ hist'[l] = hist[l] /\ cmd'[l] = cmd[l] /\ pc'[l] = pc[l]
              /\ Len(up'[l]) < Len(up[l]) =>
                    \E t \in MClients :
                        /\ pc[t] = "wait_recv" /\ Head(todo[t]) = l
                        /\ pc'[t] # "wait_recv" \/ todo'[t] # todo[t]]_vars

\* C17 witness: a reply of the replica lies unread on a registered link while
\* no WAIT is in progress, and the link's loop has decoded nothing but PSYNC
C17_Witness ==
    /\ "l1" \in replica_connections
    /\ up["l1"] # <<>>
    /\ \A t \in MClients : pc[t] = "loop"
    /\ pc["l1"] = "loop"
    /\ hist["l1"] = <<PsyncFrame>>

\* tasks that hold the write guard of a link's stream and are writing on it
LinkWriters(l) ==
    {t \in MClients : pc[t] \in {"link_head", "link_tail"} /\ Head(todo[t]) = l}

\* C18: at most one task is writing on a link at a time, and what the replica
\* receives is whole frames one after the other: the second part of a frame
\* follows its first part directly, written by the same task.
C18_LinkStreamIsWholeFrames ==
    \A l \in Links :
        /\ Cardinality(LinkWriters(l)) <= 1
        /\ \A i \in DOMAIN down[l] :
              /\ down[l][i].kind = "head" /\ i < Len(down[l]) =>
                    down[l][i + 1] = [down[l][i] EXCEPT !.kind = "tail"]
              /\ down[l][i].kind = "tail" =>
                    i > 1 /\ down[l][i - 1] = [down[l][i] EXCEPT !.kind = "head"]

\* C18 witness: c2 has half of its GETACK on the wire, after its whole SET,
\* while c1 waits for the link with a SET to propagate
C18_Witness ==
    /\ pc["c2"] = "link_tail" /\ cmd["c2"].name = "Wait"
    /\ pc["c1"] = "propagate" /\ Head(todo["c1"]) = "l1"
    /\ streamLock["l1"] = Some("c2")
    /\ down["l1"] = <<[kind |-> "head", elems |-> SetPlain, by |-> "c2"],
                      [kind |-> "tail", elems |-> SetPlain, by |-> "c2"],
                      [kind |-> "head", elems |-> get_ack_command, by |-> "c2"]>>

\* C19: a task that is suspended on the read of a replica's reply, or on the
\* deadline of that read, holds no guard of the replica registry.
C19_NoGuardAcrossSuspension ==
    \A t \in MClients : pc[t] = "wait_recv" => t \notin regReaders

\* the position, among the replies the replica wrote on link l, of the reply
\* at the head of what is still unread
NextAck(l) ==
    Len(ackLog[CHOOSE m \in MLinks : LinkOf(m) = l]) - Len(up[l]) + 1

\* C20: the reply a WAIT probe takes off a replica's link answers the GETACK
\* that this probe wrote: the replica answers every GETACK in the order
\* received, so it is the reply whose position is the position of that GETACK
\* among the GETACKs written on the link.
C20_ProbeReadsItsOwnAck ==
    [][\A t \in MClients :
          /\ pc[t] = "wait_recv"
          /\ pc'[t] # "wait_recv" \/ todo'[t] # todo[t]
          /\ Len(up'[Head(todo[t])]) < Len(up[Head(todo[t])])
          => NextAck(Head(todo[t])) = probe[t].asked]_vars

\* where the k-th GETACK stands among what the master wrote on link l
GetackPos(l, k) ==
    CHOOSE p \in DOMAIN wrote[l] :
        /\ wrote[l][p] = "getack"
        /\ Cardinality({q \in 1 .. p : wrote[l][q] = "getack"}) = k

\* how many propagated writes the master wrote on link l before its k-th GETACK
WritesBefore(l, k) ==
    Cardinality({q \in 1 .. GetackPos(l, k) : wrote[l][q] = "write"})

\* the writes a replica's master connection has decoded, in order
DecodedWrites(m) == SelectSeq(hist[m], IsSetFrame)

\* C21: when a WAIT writes its GETACK on a link, every write accepted earlier
\* on the WAIT's connection while the link was registered is already written
\* on that link; and when a replica answers a GETACK it has decoded, in the
\* order written, every write that stands before that GETACK on its link, its
\* SET handler has run for each of them, and its store holds their result.
C21_AnsweredGetackFollowsWrites ==
    [][/\ \A t \in MClients :
             pc[t] = "wait_send" /\ pc'[t] = "wait_recv" =>
                 \A i \in DOMAIN decodeOrder :
                     decodeOrder[i][1] = t /\ Head(todo[t]) \in regAt[i] =>
                         decodeOrder[i] \in Ids(LinkIds(Head(todo[t])))
       /\ \A m \in MLinks :
             Len(ackLog'[m]) > Len(ackLog[m]) =>
                 LET l == LinkOf(m)
                     r == ServerOf(m)
                     n == WritesBefore(l, Len(ackLog'[m]))
                 IN  /\ Len(DecodedWrites(m)) >= n
                     /\ Len(setLog[r]) >= n
                     /\ \A i \in 1 .. n :
                           /\ serialize_array(DecodedWrites(m)[i]) = linkLog[l][i].wire
                           /\ setLog[r][i].key = ParseCommand(DecodedWrites(m)[i]).key
                           /\ setLog[r][i].value = ParseCommand(DecodedWrites(m)[i]).value
                     /\ database[r] = StoreOf(hist[m])]_vars

\* C21 witness: replica r1 has answered the GETACK of c1's WAIT, which c1 sent
\* after its SET with a lifetime
C21_Witness ==
    /\ hist["c1"] = <<SetPx, WaitFrame>>
    /\ probe["c1"].asked = 1
    /\ Len(ackLog["m1"]) = 1
    /\ WritesBefore("l1", 1) = 1
    /\ Len(setLog["r1"]) = 1

\* a task waits for a lock it has asked for and does not hold
Blocked(t) == HeadOp(t).op = "await" /\ ~Granted(HeadOp(t).lock, t)

\* the tasks a blocked task waits for: those before it in the lock's queue
\* that stand in its way
WaitsFor(t) ==
    IF ~Blocked(t) THEN {}
    ELSE LET k == HeadOp(t).lock
             i == QueuePos(k, t)
         IN  {lockQ[k][j].task : j \in
                 {j \in 1 .. i - 1 :
                     \/ lockQ[k][i].mode = "w"
                     \/ \E n \in j .. i - 1 : lockQ[k][n].mode = "w"}}

WaitsForAll(S) == S \cup UNION {WaitsFor(u) : u \in S}

\* the tasks a task waits for, directly or through others
WaitChain(t) == WaitsForAll(WaitsForAll(WaitsForAll(WaitsFor(t))))

====
